---------------------------- MODULE Spec2Model ----------------------------
(***************************************************************************)
(* Translation quality pipeline: the retrying agent wrapper                *)
(* (agent_wrapper.py) and the orchestrator that drives every sentence      *)
(* through the three translation agents, collects the results and writes   *)
(* the intermediate, partial and final result files (pipeline.py).         *)
(*                                                                         *)
(* One TranslationQualityPipeline instance, run() called once on it, as    *)
(* main.py does.  The agents, the scorer and the file system are the       *)
(* environment: every attempt of an agent call returns, raises, or is      *)
(* still running when the timeout expires; the scorer and every file       *)
(* write succeed or raise.                                                 *)
(***************************************************************************)
EXTENDS Integers, Sequences, FiniteSets, TLC

\* Bounds of the explored configurations.
MaxRetriesBound == 3
MaxSentences == 20
MaxShortfall == 1
MaxInterval == 3
MaxSmallRetries == 2
MaxSmallSentences == 2
MaxRuns == 2
MaxDelay == 1

\* Program constants.
CHECKPOINT_EVERY == 10
WAIT_TIME_BETWEEN_SENTENCES == 60
RETRY_DELAY == 2
ENUMERATE_START == 1

None == "None"

\* The three agents of TranslationPipeline, in the order _process_sentences
\* calls them.
Stages == <<"EN_RU", "RU_HE", "HE_EN">>
NumStages == Len(Stages)

AgentErrors == {"AgentTimeoutError", "AgentMaxRetriesError"}

VARIABLES
    MAX_RETRIES,        \* config.MAX_RETRIES
    NUM_SENTENCES,      \* config.NUM_SENTENCES
    SAVE_INTERMEDIATE,  \* config.SAVE_INTERMEDIATE
    max_retries,        \* AgentWrapper.max_retries
    pc,                 \* where run() is
    sentences,          \* the list _generate_sentences returned
    pos,                \* items the for loop has taken from the list
    stage,              \* which agent the current call_with_retry is for
    russian_text, hebrew_text, final_text,   \* locals of the loop body
    results,            \* self.results
    files,              \* the files written, in write order
    start_time, end_time,
    attempt,            \* loop variable of call_with_retry
    last_error,         \* local of call_with_retry
    op,                 \* the operation submitted to the executor
    ret,                \* what call_with_retry returned
    exc,                \* the exception propagating in or out of run()
    outcome,            \* how the current call_with_retry ended
    attempt_log,        \* outcome of each attempt of the current call
    calls,              \* invocations of the agent function in the current call
    sleeps,             \* time.sleep(retry_delay) taken in the current call
    invoked,            \* <<item position, stage>> of every agent invocation
    exhausted,          \* <<item position, stage>> of every exhausted call
    cli,                \* where main() is
    prerequisites,      \* what check_prerequisites returned
    response,           \* what the operator typed at the prompt
    exit_status,        \* the status the process exited with
    runs,               \* calls of run() on the instance
    called_with,        \* <<item position, stage, text>> of every agent invocation
    write_failed,       \* which save raised
    truncated,          \* <<kind, name>> of the files left cut short on disk
    reports,            \* the failure lines printed in the current call
    item_waits,         \* time.sleep(WAIT_TIME_BETWEEN_SENTENCES) taken
    arg_max_retries,    \* the max_retries argument of AgentWrapper(...)
    arg_retry_delay,    \* the retry_delay argument of AgentWrapper(...)
    retry_delay         \* AgentWrapper.retry_delay

vars == <<MAX_RETRIES, NUM_SENTENCES, SAVE_INTERMEDIATE, max_retries, pc,
          sentences, pos, stage, russian_text, hebrew_text, final_text,
          results, files, start_time, end_time, attempt, last_error, op,
          ret, exc, outcome, attempt_log, calls, sleeps, invoked,
          exhausted, cli, prerequisites, response, exit_status, runs,
          called_with, write_failed, truncated, reports, item_waits,
          arg_max_retries, arg_retry_delay, retry_delay>>

config_vars == <<MAX_RETRIES, NUM_SENTENCES, SAVE_INTERMEDIATE, max_retries,
                 arg_max_retries, arg_retry_delay, retry_delay>>
text_vars == <<russian_text, hebrew_text, final_text>>
call_vars == <<attempt, last_error, op, ret, outcome, attempt_log, calls, sleeps,
               reports>>
main_vars == <<cli, prerequisites, response, exit_status>>

-----------------------------------------------------------------------------
\* Helpers

\* An optional constructor argument: left out (it is None) or given a value.
Missing == <<>>
Given(v) == <<v>>

\* `x or default` of AgentWrapper.__init__: None and 0 are falsy.
OrDefault(x, default) == IF x = Missing \/ x[1] = 0 THEN default ELSE x[1]

\* The agents are functions of their input text.
Translate(s, text) == <<Stages[s], text>>

\* The scorer is a function of the two sentences it is given.
Distance(sentence1, sentence2) == <<"distance", sentence1, sentence2>>

\* enumerate(sentences, 1): the index that goes with the p-th item.
EnumerateFromZero(p) == p - 1
EnumerateIndex(p) == p - 1 + ENUMERATE_START

idx == EnumerateIndex(pos)

\* The text handed to the agent of the current stage.
StageInputAlwaysOriginal == sentences[pos]
StageInput ==
    IF stage = 1 THEN sentences[pos]
    ELSE IF stage = 2 THEN russian_text
    ELSE hebrew_text

\* The line both except clauses print: the kind of failure with
\* `attempt {attempt}/{self.max_retries}`.
Report(kind, a) == <<kind, a, max_retries>>

\* `for attempt in range(1, self.max_retries + 1)`: is a still in the range.
InRangeShort(a) == a < max_retries
InRange(a) == a <= max_retries

\* `if attempt == self.max_retries` of both except clauses.
IsFinalAttemptOffByOne(a) == a >= max_retries - 1
IsFinalAttempt(a) == a = max_retries

\* What each except clause raises on the final attempt.
ExhaustedErrorIfAllTimedOut(kind) ==
    IF kind = "timeout" /\ \A i \in 1..Len(attempt_log) : attempt_log[i] = "timeout"
      THEN "AgentTimeoutError" ELSE "AgentMaxRetriesError"
ExhaustedError(kind) ==
    IF kind = "timeout" THEN "AgentTimeoutError" ELSE "AgentMaxRetriesError"

\* `config.SAVE_INTERMEDIATE and idx % 10 == 0`
CheckpointDueZeroBased(i) == SAVE_INTERMEDIATE /\ (i - 1) % CHECKPOINT_EVERY = 0
CheckpointDue(i) == SAVE_INTERMEDIATE /\ i % CHECKPOINT_EVERY = 0

\* The result dict of one item.
ItemResult ==
    [index |-> idx,
     original_sentence |-> sentences[pos],
     russian_translation |-> russian_text,
     hebrew_translation |-> hebrew_text,
     final_sentence |-> final_text,
     cosine_distance |-> Distance(sentences[pos], final_text)]

\* The documents written by the three save methods.
IntermediateFileCountsFromZero(current_idx) ==
    [kind |-> "intermediate", name |-> current_idx, status |-> None,
     processed |-> current_idx - 1, expected |-> None,
     end_time |-> None, sentences |-> results]
IntermediateFile(current_idx) ==
    [kind |-> "intermediate", name |-> current_idx, status |-> None,
     processed |-> current_idx, expected |-> None,
     end_time |-> None, sentences |-> results]

PartialFileCountsFailedItem ==
    [kind |-> "partial", name |-> Len(results), status |-> "PARTIAL",
     processed |-> Len(results) + 1, expected |-> NUM_SENTENCES,
     end_time |-> None, sentences |-> results]
PartialFile ==
    [kind |-> "partial", name |-> Len(results), status |-> "PARTIAL",
     processed |-> Len(results), expected |-> NUM_SENTENCES,
     end_time |-> None, sentences |-> results]

FinalFile ==
    [kind |-> "final", name |-> None, status |-> None,
     processed |-> Len(results), expected |-> None,
     end_time |-> end_time, sentences |-> results]

FilesOfKind(k) == SelectSeq(files, LAMBDA f : f.kind = k)

-----------------------------------------------------------------------------
\* Initial state: configuration chosen, the operator has confirmed, main() has
\* constructed the pipeline, run() not yet called.
\* TranslationQualityPipeline.__init__: no results, no times; nothing called
\* or written yet.
\* self.agent_wrapper = AgentWrapper(): every argument left out.
DefaultWrapper ==
    /\ arg_max_retries = Missing
    /\ arg_retry_delay = Missing

Constructed ==
    /\ max_retries = OrDefault(arg_max_retries, MAX_RETRIES)
    /\ retry_delay = OrDefault(arg_retry_delay, RETRY_DELAY)
    /\ pc = "idle"
    /\ sentences = <<>>
    /\ pos = 0
    /\ stage = 0
    /\ russian_text = None /\ hebrew_text = None /\ final_text = None
    /\ results = <<>>
    /\ files = <<>>
    /\ start_time = None /\ end_time = None
    /\ attempt = 0
    /\ last_error = None
    /\ op = "none"
    /\ ret = None
    /\ exc = None
    /\ outcome = None
    /\ attempt_log = <<>>
    /\ calls = 0
    /\ sleeps = 0
    /\ invoked = {}
    /\ exhausted = {}
    /\ exit_status = None
    /\ runs = 0
    /\ called_with = {}
    /\ write_failed = None
    /\ truncated = {}
    /\ reports = <<>>
    /\ item_waits = 0

Init ==
    /\ MAX_RETRIES \in 0..MaxRetriesBound
    /\ NUM_SENTENCES \in 1..MaxSentences
    /\ SAVE_INTERMEDIATE \in BOOLEAN
    /\ DefaultWrapper
    /\ Constructed
    /\ cli = "run"
    /\ prerequisites = TRUE
    /\ response = "yes"

-----------------------------------------------------------------------------
\* run(): start_time is set and _generate_sentences returns the list.  The
\* generator truncates to NUM_SENTENCES and may deliver fewer when the model's
\* additional sentences fall short.
RunBegin ==
    /\ pc = "idle"
    /\ cli = "run"
    /\ runs' = runs + 1
    /\ start_time' = "set"
    /\ \E short \in 0..MaxShortfall :
         /\ short <= NUM_SENTENCES
         /\ sentences' = [i \in 1..(NUM_SENTENCES - short) |-> <<"EN", i>>]
    /\ pc' = "for"
    /\ UNCHANGED <<config_vars, item_waits, main_vars, called_with, write_failed, truncated,
                   pos, stage, text_vars, results, files, end_time,
                   call_vars, exc, invoked, exhausted>>

\* Entry of call_with_retry for stage s: last_error = None, the for loop
\* starts at attempt 1.
EnterCallKeepsAttempt(s) ==
    /\ stage' = s
    /\ attempt' = IF attempt = 0 THEN 1 ELSE attempt
    /\ last_error' = None
    /\ op' = "none"
    /\ ret' = None
    /\ outcome' = "pending"
    /\ attempt_log' = <<>>
    /\ calls' = 0
    /\ sleeps' = 0
    /\ reports' = <<>>
    /\ pc' = "attempt"
EnterCall(s) ==
    /\ stage' = s
    /\ attempt' = 1
    /\ last_error' = None
    /\ op' = "none"
    /\ ret' = None
    /\ outcome' = "pending"
    /\ attempt_log' = <<>>
    /\ calls' = 0
    /\ sleeps' = 0
    /\ reports' = <<>>
    /\ pc' = "attempt"

\* The for loop of _process_sentences takes the next sentence and calls the
\* first agent.
ForNext ==
    /\ pc = "for"
    /\ pos < Len(sentences)
    /\ pos' = pos + 1
    /\ russian_text' = None /\ hebrew_text' = None /\ final_text' = None
    /\ EnterCall(1)
    /\ UNCHANGED <<config_vars, item_waits, main_vars, runs, called_with, write_failed, truncated,
                   sentences, results, files, start_time, end_time,
                   exc, invoked, exhausted>>

\* The for loop is over: _process_sentences returns.
ForDone ==
    /\ pc = "for"
    /\ pos = Len(sentences)
    /\ pc' = "analyze"
    /\ UNCHANGED <<config_vars, item_waits, main_vars, runs, called_with, write_failed, truncated,
                   sentences, pos, stage, text_vars, results, files,
                   start_time, end_time, call_vars, exc, invoked, exhausted>>

\* _call_with_timeout: the agent function is submitted to a fresh one-worker
\* executor and starts running.
Submit ==
    /\ pc = "attempt"
    /\ InRange(attempt)
    /\ op' = "running"
    /\ calls' = calls + 1
    /\ invoked' = invoked \cup {<<pos, stage>>}
    /\ called_with' = called_with \cup {<<pos, stage, StageInput>>}
    /\ pc' = "future"
    /\ UNCHANGED <<config_vars, item_waits, main_vars, runs, write_failed, truncated,
                   sentences, pos, stage, text_vars, results, files,
                   start_time, end_time, attempt, last_error, ret, exc, outcome,
                   attempt_log, sleeps, reports, exhausted>>

\* range(1, max_retries + 1) is exhausted without a return or a raise:
\* `return (False, last_error)`.
FallThrough ==
    /\ pc = "attempt"
    /\ ~InRange(attempt)
    /\ ret' = <<FALSE, last_error>>
    /\ outcome' = "fallthrough"
    /\ pc' = "returned"
    /\ UNCHANGED <<config_vars, item_waits, main_vars, runs, called_with, write_failed, truncated,
                   sentences, pos, stage, text_vars, results, files,
                   start_time, end_time, attempt, last_error, op, exc,
                   attempt_log, calls, sleeps, reports, invoked, exhausted>>

\* The operation returns before the timeout: future.result returns, the
\* executor is shut down, call_with_retry returns (True, result).
OpReturnsGoesOn ==
    /\ pc = "future"
    /\ op = "running"
    /\ op' = "none"
    /\ attempt_log' = Append(attempt_log, "ok")
    /\ ret' = <<TRUE, Translate(stage, StageInput)>>
    /\ outcome' = "success"
    /\ pc' = IF attempt < max_retries THEN "sleep" ELSE "returned"
    /\ UNCHANGED <<config_vars, item_waits, main_vars, runs, called_with, write_failed, truncated,
                   sentences, pos, stage, text_vars, results, files,
                   start_time, end_time, attempt, last_error, exc, calls, sleeps,
                   reports, invoked, exhausted>>
OpReturns ==
    /\ pc = "future"
    /\ op = "running"
    /\ op' = "none"
    /\ attempt_log' = Append(attempt_log, "ok")
    /\ ret' = <<TRUE, Translate(stage, StageInput)>>
    /\ outcome' = "success"
    /\ pc' = "returned"
    /\ UNCHANGED <<config_vars, item_waits, main_vars, runs, called_with, write_failed, truncated,
                   sentences, pos, stage, text_vars, results, files,
                   start_time, end_time, attempt, last_error, exc, calls, sleeps,
                   reports, invoked, exhausted>>

\* `raise AgentTimeoutError / AgentMaxRetriesError` on the final attempt.  The
\* exception passes _call_agent_with_retry, is re-raised by the except clause
\* of _process_sentences and is caught by the first except clause of run().
RaiseSwallowed(kind) ==
    /\ outcome' = ExhaustedError(kind)
    /\ exhausted' = exhausted \cup {<<pos, stage>>}
    /\ exc' = exc
    /\ ret' = <<TRUE, None>>
    /\ pc' = "returned"
RaiseSkipsItem(kind) ==
    /\ outcome' = ExhaustedError(kind)
    /\ exhausted' = exhausted \cup {<<pos, stage>>}
    /\ exc' = exc
    /\ ret' = ret
    /\ pc' = "for"
RaiseExhausted(kind) ==
    /\ outcome' = ExhaustedError(kind)
    /\ exhausted' = exhausted \cup {<<pos, stage>>}
    /\ exc' = ExhaustedError(kind)
    /\ ret' = ret
    /\ pc' = "except_agent"

\* An except clause of call_with_retry: last_error is set and reported; on
\* the final attempt the exhaustion error is raised, otherwise the loop goes
\* on to sleep retry_delay.
FailedAttemptSleepsBeforeRaise(kind) ==
    /\ op' = "none"
    /\ attempt_log' = Append(attempt_log, kind)
    /\ last_error' = <<kind, attempt>>
    /\ reports' = Append(reports, Report(kind, attempt))
    /\ sleeps' = IF IsFinalAttempt(attempt) THEN sleeps + 1 ELSE sleeps
    /\ IF IsFinalAttempt(attempt)
         THEN RaiseExhausted(kind)
         ELSE /\ attempt < max_retries
              /\ pc' = "sleep"
              /\ UNCHANGED <<ret, exc, outcome, exhausted>>
    /\ UNCHANGED <<config_vars, item_waits, main_vars, runs, called_with, write_failed, truncated,
                   sentences, pos, stage, text_vars, results, files,
                   start_time, end_time, attempt, calls, invoked>>
FailedAttemptReportsOnRetry(kind) ==
    /\ op' = "none"
    /\ attempt_log' = Append(attempt_log, kind)
    /\ last_error' = <<kind, attempt>>
    /\ reports' = IF IsFinalAttempt(attempt) THEN reports
                  ELSE Append(reports, Report(kind, attempt))
    /\ IF IsFinalAttempt(attempt)
         THEN RaiseExhausted(kind)
         ELSE /\ attempt < max_retries
              /\ pc' = "sleep"
              /\ UNCHANGED <<ret, exc, outcome, exhausted>>
    /\ UNCHANGED <<config_vars, item_waits, main_vars, runs, called_with, write_failed, truncated,
                   sentences, pos, stage, text_vars, results, files,
                   start_time, end_time, attempt, calls, sleeps, invoked>>
FailedAttempt(kind) ==
    /\ op' = "none"
    /\ attempt_log' = Append(attempt_log, kind)
    /\ last_error' = <<kind, attempt>>
    /\ reports' = Append(reports, Report(kind, attempt))
    /\ IF IsFinalAttempt(attempt)
         THEN RaiseExhausted(kind)
         ELSE /\ attempt < max_retries
              /\ pc' = "sleep"
              /\ UNCHANGED <<ret, exc, outcome, exhausted>>
    /\ UNCHANGED <<config_vars, item_waits, main_vars, runs, called_with, write_failed, truncated,
                   sentences, pos, stage, text_vars, results, files,
                   start_time, end_time, attempt, calls, sleeps, invoked>>

\* The operation raises before the timeout: `except Exception`.
OpRaises ==
    /\ pc = "future"
    /\ op = "running"
    /\ FailedAttempt("error")

\* future.result(timeout) raises TimeoutError while the operation is still
\* running.  future.cancel() cannot cancel a running call, and leaving the
\* `with ThreadPoolExecutor` block calls shutdown(wait=True), which joins the
\* worker: _call_with_timeout stays in the block until the operation ends.
DeadlineExpiresWithoutJoin ==
    /\ pc = "future"
    /\ op = "running"
    /\ op' = op
    /\ attempt_log' = Append(attempt_log, "timeout")
    /\ last_error' = <<"timeout", attempt>>
    /\ reports' = Append(reports, Report("timeout", attempt))
    /\ IF IsFinalAttempt(attempt)
         THEN RaiseExhausted("timeout")
         ELSE /\ attempt < max_retries
              /\ pc' = "sleep"
              /\ UNCHANGED <<ret, exc, outcome, exhausted>>
    /\ UNCHANGED <<config_vars, item_waits, main_vars, runs, called_with, write_failed, truncated,
                   sentences, pos, stage, text_vars, results, files,
                   start_time, end_time, attempt, calls, sleeps, invoked>>
DeadlineExpires ==
    /\ pc = "future"
    /\ op = "running"
    /\ pc' = "shutdown"
    /\ UNCHANGED <<config_vars, item_waits, main_vars, runs, called_with, write_failed, truncated,
                   sentences, pos, stage, text_vars, results, files,
                   start_time, end_time, call_vars, exc, invoked, exhausted>>

\* The operation ends after the timeout (its result or error is dropped), the
\* executor shuts down, and TimeoutError reaches `except FuturesTimeoutError`.
OpEndsLateObserved ==
    /\ pc = "shutdown"
    /\ op = "running"
    /\ op' = "none"
    /\ attempt_log' = Append(attempt_log, "ok")
    /\ ret' = <<TRUE, Translate(stage, StageInput)>>
    /\ outcome' = "success"
    /\ pc' = "returned"
    /\ UNCHANGED <<config_vars, item_waits, main_vars, runs, called_with, write_failed, truncated,
                   sentences, pos, stage, text_vars, results, files,
                   start_time, end_time, attempt, last_error, exc, calls, sleeps,
                   reports, invoked, exhausted>>
OpEndsLate ==
    /\ pc = "shutdown"
    /\ op = "running"
    /\ FailedAttempt("timeout")

\* time.sleep(self.retry_delay), then the next iteration of the for loop.
Sleep ==
    /\ pc = "sleep"
    /\ sleeps' = sleeps + 1
    /\ attempt' = attempt + 1
    /\ pc' = "attempt"
    /\ UNCHANGED <<config_vars, item_waits, main_vars, runs, called_with, write_failed, truncated,
                   sentences, pos, stage, text_vars, results, files,
                   start_time, end_time, last_error, op, ret, exc, outcome,
                   attempt_log, calls, reports, invoked, exhausted>>

\* _call_agent_with_retry after call_with_retry returned: on success the
\* text is bound to the local of the stage and the next agent is called (or,
\* after the third, the item goes to the scorer); otherwise
\* `raise Exception(result)`, which run() catches in `except Exception` and
\* re-raises.
StageReturn ==
    /\ pc = "returned"
    /\ IF ret[1]
         THEN /\ russian_text' = IF stage = 1 THEN ret[2] ELSE russian_text
              /\ hebrew_text' = IF stage = 2 THEN ret[2] ELSE hebrew_text
              /\ final_text' = IF stage = 3 THEN ret[2] ELSE final_text
              /\ IF stage < NumStages
                   THEN EnterCall(stage + 1)
                   ELSE /\ pc' = "score"
                        /\ UNCHANGED <<stage, call_vars>>
              /\ exc' = exc
         ELSE /\ exc' = "Exception"
              /\ pc' = "failed"
              /\ UNCHANGED <<stage, text_vars, call_vars>>
    /\ UNCHANGED <<config_vars, item_waits, main_vars, runs, called_with, write_failed, truncated,
                   sentences, pos, results, files, start_time,
                   end_time, invoked, exhausted>>

\* calculate_cosine_distance returns; the result dict is appended to
\* self.results; then the periodic intermediate save is due or the loop goes
\* on.
ScoreOkPrepends ==
    /\ pc = "score"
    /\ results' = <<ItemResult>> \o results
    /\ pc' = IF CheckpointDue(idx) THEN "checkpoint" ELSE "for"
    /\ UNCHANGED <<config_vars, item_waits, main_vars, runs, called_with, write_failed, truncated,
                   sentences, pos, stage, text_vars, files,
                   start_time, end_time, call_vars, exc, invoked, exhausted>>
ScoreOk ==
    /\ pc = "score"
    /\ results' = Append(results, ItemResult)
    /\ pc' = IF CheckpointDue(idx) THEN "checkpoint" ELSE "for"
    /\ UNCHANGED <<config_vars, item_waits, main_vars, runs, called_with, write_failed, truncated,
                   sentences, pos, stage, text_vars, files,
                   start_time, end_time, call_vars, exc, invoked, exhausted>>

\* calculate_cosine_distance raises: not an agent error, so run() re-raises it
\* from `except Exception`.
ScoreFails ==
    /\ pc = "score"
    /\ exc' = "RuntimeError"
    /\ pc' = "failed"
    /\ UNCHANGED <<config_vars, item_waits, main_vars, runs, called_with, write_failed, truncated,
                   sentences, pos, stage, text_vars, results, files,
                   start_time, end_time, call_vars, invoked, exhausted>>

\* _save_intermediate_results(idx) writes intermediate_results_<idx>.json.
CheckpointOk ==
    /\ pc = "checkpoint"
    /\ files' = Append(files, IntermediateFile(idx))
    /\ pc' = "for"
    /\ UNCHANGED <<config_vars, item_waits, main_vars, runs, called_with, write_failed, truncated,
                   sentences, pos, stage, text_vars, results,
                   start_time, end_time, call_vars, exc, invoked, exhausted>>

\* The intermediate write raises (open or json.dump): nothing catches it
\* before `except Exception` of run(), which re-raises.
CheckpointFails ==
    /\ pc = "checkpoint"
    /\ exc' = "OSError"
    /\ write_failed' = "intermediate"
    /\ \E torn \in BOOLEAN :
         truncated' = IF torn THEN truncated \cup {<<"intermediate", idx>>} ELSE truncated
    /\ pc' = "failed"
    /\ UNCHANGED <<config_vars, item_waits, main_vars, runs, called_with,
                   sentences, pos, stage, text_vars, results, files,
                   start_time, end_time, call_vars, invoked, exhausted>>

\* `if self.results:` of the agent-error clause of run() (and of
\* _save_partial_results itself).
SavesPartialAlways == TRUE
SavesPartial == results # <<>>

\* except (AgentTimeoutError, AgentMaxRetriesError) with no results: `raise`.
PartialSkip ==
    /\ pc = "except_agent"
    /\ ~SavesPartial
    /\ pc' = "failed"
    /\ UNCHANGED <<config_vars, item_waits, main_vars, runs, called_with, write_failed, truncated,
                   sentences, pos, stage, text_vars, results, files,
                   start_time, end_time, call_vars, exc, invoked, exhausted>>

\* except (AgentTimeoutError, AgentMaxRetriesError) with results:
\* _save_partial_results writes partial_results_<n>_sentences.json, then
\* `raise`.
PartialOkGoesOn ==
    /\ pc = "except_agent"
    /\ SavesPartial
    /\ files' = Append(files, PartialFile)
    /\ pc' = "for"
    /\ UNCHANGED <<config_vars, item_waits, main_vars, runs, called_with, write_failed, truncated,
                   sentences, pos, stage, text_vars, results,
                   start_time, end_time, call_vars, exc, invoked, exhausted>>
PartialOk ==
    /\ pc = "except_agent"
    /\ SavesPartial
    /\ files' = Append(files, PartialFile)
    /\ pc' = "failed"
    /\ UNCHANGED <<config_vars, item_waits, main_vars, runs, called_with, write_failed, truncated,
                   sentences, pos, stage, text_vars, results,
                   start_time, end_time, call_vars, exc, invoked, exhausted>>

\* The partial write raises inside the except clause: that error leaves run()
\* instead of the agent error.
PartialFails ==
    /\ pc = "except_agent"
    /\ SavesPartial
    /\ exc' = "OSError"
    /\ write_failed' = "partial"
    /\ \E torn \in BOOLEAN :
         truncated' = IF torn THEN truncated \cup {<<"partial", Len(results)>>} ELSE truncated
    /\ pc' = "failed"
    /\ UNCHANGED <<config_vars, item_waits, main_vars, runs, called_with,
                   sentences, pos, stage, text_vars, results, files,
                   start_time, end_time, call_vars, invoked, exhausted>>

\* _analyze_and_visualize with no results returns at once; run() sets end_time
\* and completes.
AnalyzeEmpty ==
    /\ pc = "analyze"
    /\ results = <<>>
    /\ end_time' = "set"
    /\ pc' = "completed"
    /\ UNCHANGED <<config_vars, item_waits, main_vars, runs, called_with, write_failed, truncated,
                   sentences, pos, stage, text_vars, results, files,
                   start_time, call_vars, exc, invoked, exhausted>>

\* _analyze_and_visualize: statistics, plot, _save_results writes the final
\* file; back in run() end_time is set and the run completes.
FinalSaveOk ==
    /\ pc = "analyze"
    /\ results # <<>>
    /\ files' = Append(files, FinalFile)
    /\ end_time' = "set"
    /\ pc' = "completed"
    /\ UNCHANGED <<config_vars, item_waits, main_vars, runs, called_with, write_failed, truncated,
                   sentences, pos, stage, text_vars, results,
                   start_time, call_vars, exc, invoked, exhausted>>

\* Statistics, plot or the final write raise: `except Exception` re-raises.
FinalSaveFailsAsAgentError ==
    /\ pc = "analyze"
    /\ results # <<>>
    /\ exc' = "AgentMaxRetriesError"
    /\ write_failed' = "final"
    /\ truncated' = truncated
    /\ pc' = "except_agent"
    /\ UNCHANGED <<config_vars, item_waits, main_vars, runs, called_with,
                   sentences, pos, stage, text_vars, results, files,
                   start_time, end_time, call_vars, invoked, exhausted>>
FinalSaveFails ==
    /\ pc = "analyze"
    /\ results # <<>>
    /\ exc' = "OSError"
    /\ write_failed' = "final"
    /\ \E torn \in BOOLEAN :
         truncated' = IF torn THEN truncated \cup {<<"final", None>>} ELSE truncated
    /\ pc' = "failed"
    /\ UNCHANGED <<config_vars, item_waits, main_vars, runs, called_with,
                   sentences, pos, stage, text_vars, results, files,
                   start_time, end_time, call_vars, invoked, exhausted>>

Next ==
    \/ RunBegin
    \/ ForNext
    \/ ForDone
    \/ Submit
    \/ FallThrough
    \/ OpReturns
    \/ OpRaises
    \/ DeadlineExpires
    \/ OpEndsLate
    \/ Sleep
    \/ StageReturn
    \/ ScoreOk
    \/ ScoreFails
    \/ CheckpointOk
    \/ CheckpointFails
    \/ PartialSkip
    \/ PartialOk
    \/ PartialFails
    \/ AnalyzeEmpty
    \/ FinalSaveOk
    \/ FinalSaveFails

Spec == Init /\ [][Next]_vars

\* The steps run() takes by itself: the interpreter goes on, the timer of
\* future.result fires, time.sleep ends, a save returns or raises.  When
\* the submitted operation ends (OpReturns, OpRaises, OpEndsLate) is up to
\* the operation; an operation that hangs never ends.
ProgramStep ==
    \/ RunBegin
    \/ ForNext
    \/ ForDone
    \/ Submit
    \/ FallThrough
    \/ DeadlineExpires
    \/ Sleep
    \/ StageReturn
    \/ ScoreOk
    \/ ScoreFails
    \/ CheckpointOk
    \/ CheckpointFails
    \/ PartialSkip
    \/ PartialOk
    \/ PartialFails
    \/ AnalyzeEmpty
    \/ FinalSaveOk
    \/ FinalSaveFails

-----------------------------------------------------------------------------
\* main(): prerequisites, confirmation prompt, construction, exit status.

\* Answers typed at `Do you want to proceed? (yes/no): `.
Responses == {"yes", "y", " Yes ", "Y", "no", "", "yes please"}

\* response.strip().lower()
StripLower(r) ==
    CASE r = " Yes " -> "yes"
      [] r = "Y" -> "y"
      [] OTHER -> r

\* `response not in ['yes', 'y']` decides whether main() goes on.
ConfirmsUnlessNo(r) == StripLower(r) # "no"
Confirms(r) == StripLower(r) \in {"yes", "y"}

\* sys.exit(1) of both except clauses around pipeline.run().
MainExitStatusInterruptZero(e) == IF e = "KeyboardInterrupt" THEN 0 ELSE 1
MainExitStatus(e) == IF e = "KeyboardInterrupt" THEN 1 ELSE 1

\* The configurations explored together with main(), interrupts and a second
\* run: few retries, and sentence counts on both sides of the periodic save.
SmallConfig ==
    /\ MAX_RETRIES \in 0..MaxSmallRetries
    /\ NUM_SENTENCES \in (1..MaxSmallSentences) \cup {CHECKPOINT_EVERY}
    /\ SAVE_INTERMEDIATE \in BOOLEAN

\* The process starts: nothing checked, asked or constructed yet.
InitMain ==
    /\ SmallConfig
    /\ DefaultWrapper
    /\ Constructed
    /\ cli = "prerequisites"
    /\ prerequisites = None
    /\ response = None

\* check_prerequisites() returns False: sys.exit(1).
PrerequisitesFail ==
    /\ cli = "prerequisites"
    /\ prerequisites' = FALSE
    /\ exit_status' = 1
    /\ cli' = "exited"
    /\ UNCHANGED <<config_vars, item_waits, pc, sentences, pos, stage, text_vars, results,
                   files, start_time, end_time, call_vars, exc, invoked,
                   exhausted, response, runs, called_with, write_failed,
                   truncated>>

\* check_prerequisites() returns True: configuration printed, prompt shown.
PrerequisitesPass ==
    /\ cli = "prerequisites"
    /\ prerequisites' = TRUE
    /\ cli' = "prompt"
    /\ UNCHANGED <<config_vars, item_waits, pc, sentences, pos, stage, text_vars, results,
                   files, start_time, end_time, call_vars, exc, invoked,
                   exhausted, response, exit_status, runs, called_with,
                   write_failed, truncated>>

\* The operator answers the prompt: anything but yes / y is sys.exit(0).
Answer ==
    /\ cli = "prompt"
    /\ \E r \in Responses :
         /\ response' = r
         /\ IF Confirms(r)
              THEN cli' = "construct" /\ exit_status' = exit_status
              ELSE cli' = "exited" /\ exit_status' = 0
    /\ UNCHANGED <<config_vars, item_waits, pc, sentences, pos, stage, text_vars, results,
                   files, start_time, end_time, call_vars, exc, invoked,
                   exhausted, prerequisites, runs, called_with, write_failed,
                   truncated>>

\* KeyboardInterrupt at the prompt: sys.exit(0).
PromptInterrupt ==
    /\ cli = "prompt"
    /\ exit_status' = 0
    /\ cli' = "exited"
    /\ UNCHANGED <<config_vars, item_waits, pc, sentences, pos, stage, text_vars, results,
                   files, start_time, end_time, call_vars, exc, invoked,
                   exhausted, prerequisites, response, runs, called_with,
                   write_failed, truncated>>

\* pipeline = TranslationQualityPipeline()
Construct ==
    /\ cli = "construct"
    /\ cli' = "run"
    /\ UNCHANGED <<config_vars, item_waits, pc, sentences, pos, stage, text_vars, results,
                   files, start_time, end_time, call_vars, exc, invoked,
                   exhausted, prerequisites, response, exit_status, runs,
                   called_with, write_failed, truncated>>

\* The constructor raises (a component fails to load): `except Exception`,
\* sys.exit(1).
ConstructFails ==
    /\ cli = "construct"
    /\ exit_status' = 1
    /\ cli' = "exited"
    /\ UNCHANGED <<config_vars, item_waits, pc, sentences, pos, stage, text_vars, results,
                   files, start_time, end_time, call_vars, exc, invoked,
                   exhausted, prerequisites, response, runs, called_with,
                   write_failed, truncated>>

\* pipeline.run() returned: the success banner, main() returns, status 0.
ExitSuccess ==
    /\ cli = "run"
    /\ pc = "completed"
    /\ exit_status' = 0
    /\ cli' = "exited"
    /\ UNCHANGED <<config_vars, item_waits, pc, sentences, pos, stage, text_vars, results,
                   files, start_time, end_time, call_vars, exc, invoked,
                   exhausted, prerequisites, response, runs, called_with,
                   write_failed, truncated>>

\* pipeline.run() raised: `except KeyboardInterrupt` or `except Exception`.
ExitFailure ==
    /\ cli = "run"
    /\ pc = "failed"
    /\ exit_status' = MainExitStatus(exc)
    /\ cli' = "exited"
    /\ UNCHANGED <<config_vars, item_waits, pc, sentences, pos, stage, text_vars, results,
                   files, start_time, end_time, call_vars, exc, invoked,
                   exhausted, prerequisites, response, runs, called_with,
                   write_failed, truncated>>

\* The file a save method has open at this point of run(), if any.
WriteTarget ==
    CASE pc = "checkpoint" -> <<"intermediate", idx>>
      [] pc = "analyze" /\ results # <<>> -> <<"final", None>>
      [] pc = "except_agent" /\ SavesPartial -> <<"partial", Len(results)>>
      [] OTHER -> None

\* KeyboardInterrupt is raised in the main thread while run() is executing.
\* It is a BaseException: neither except clause of run() catches it, so it
\* leaves run() at once; raised inside future.result it first waits in the
\* executor's shutdown for the running operation; raised inside a save it may
\* leave the open file cut short.
Interrupt ==
    /\ cli = "run"
    /\ pc \in {"for", "attempt", "future", "shutdown", "sleep", "returned",
               "score", "checkpoint", "except_agent", "analyze", "interrupted"}
    /\ exc' = "KeyboardInterrupt"
    /\ pc' = IF pc = "future" THEN "interrupted" ELSE "failed"
    /\ \E torn \in BOOLEAN :
         truncated' = IF torn /\ WriteTarget # None
                        THEN truncated \cup {WriteTarget} ELSE truncated
    /\ UNCHANGED <<config_vars, item_waits, main_vars, sentences, pos, stage, text_vars,
                   results, files, start_time, end_time, call_vars, invoked,
                   exhausted, runs, called_with, write_failed>>

\* The operation ends, the executor's shutdown returns and the pending
\* KeyboardInterrupt leaves run().
OpEndsInterrupted ==
    /\ pc = "interrupted"
    /\ op = "running"
    /\ op' = "none"
    /\ pc' = "failed"
    /\ UNCHANGED <<config_vars, item_waits, main_vars, sentences, pos, stage, text_vars,
                   results, files, start_time, end_time, attempt, last_error,
                   ret, outcome, attempt_log, calls, sleeps, reports, exc, invoked,
                   exhausted, runs, called_with, write_failed, truncated>>

NextMain ==
    \/ Next
    \/ PrerequisitesFail
    \/ PrerequisitesPass
    \/ Answer
    \/ PromptInterrupt
    \/ Construct
    \/ ConstructFails
    \/ ExitSuccess
    \/ ExitFailure
    \/ Interrupt
    \/ OpEndsInterrupted

SpecMain == InitMain /\ [][NextMain]_vars

\* A caller calls run() again on an instance whose run() has returned or
\* raised: run() has no guard and does not reset self.results.
Rerun ==
    /\ cli = "run"
    /\ pc \in {"completed", "failed"}
    /\ runs < MaxRuns
    /\ runs' = runs + 1
    /\ start_time' = "set"
    /\ \E short \in 0..MaxShortfall :
         /\ short <= NUM_SENTENCES
         /\ sentences' = [i \in 1..(NUM_SENTENCES - short) |-> <<"EN", i>>]
    /\ pos' = 0
    /\ exc' = None
    /\ write_failed' = None
    /\ pc' = "for"
    /\ UNCHANGED <<config_vars, item_waits, main_vars, stage, text_vars, results, files,
                   end_time, call_vars, invoked, exhausted, called_with,
                   truncated>>

InitRerun ==
    /\ SmallConfig
    /\ DefaultWrapper
    /\ Constructed
    /\ cli = "run"
    /\ prerequisites = TRUE
    /\ response = "yes"

NextRerun ==
    \/ Next
    \/ Rerun

SpecRerun == InitRerun /\ [][NextRerun]_vars

\* call_with_retry with any operation, not only TranslationAgent.translate
\* (which wraps whatever it raises in Exception).  The except clause an
\* exception type reaches: `except FuturesTimeoutError` comes first and
\* matches concurrent.futures.TimeoutError, which from Python 3.11 on is the
\* builtin TimeoutError; everything else reaches `except Exception`.
ExceptClause(type) == IF type = "TimeoutError" THEN "timeout" ELSE "error"

\* The operation raises TimeoutError by itself before the timeout.
OpRaisesTimeoutError ==
    /\ pc = "future"
    /\ op = "running"
    /\ FailedAttempt(ExceptClause("TimeoutError"))

NextAnyOperation ==
    \/ Next
    \/ OpRaisesTimeoutError

SpecAnyOperation == InitRerun /\ [][NextAnyOperation]_vars

\* A run whose wrapper was constructed with arguments given by the caller,
\* as test_components does with AgentWrapper(max_retries=2, timeout=30).
InitSupplied ==
    /\ SmallConfig
    /\ arg_max_retries \in {Missing} \cup {Given(v) : v \in 0..MaxSmallRetries}
    /\ arg_retry_delay \in {Missing} \cup {Given(v) : v \in 0..MaxDelay}
    /\ Constructed
    /\ cli = "run"
    /\ prerequisites = TRUE
    /\ response = "yes"

SpecSupplied == InitSupplied /\ [][Next]_vars


-----------------------------------------------------------------------------
\* Properties

Failures == {"timeout", "error"}
AllIn(seq, S) == \A i \in 1..Len(seq) : seq[i] \in S
InCall == pc \in {"attempt", "future", "shutdown", "sleep"}
Intermediates == FilesOfKind("intermediate")
IndexContiguous(seq) == \A i \in 1..Len(seq) : seq[i].index = i

\* C1: with max_retries = N >= 1, a call whose attempts so far all failed and
\* are fewer than N is still retrying, and a call that succeeds on attempt N
\* after N-1 failures returns (True, value of that attempt) having invoked
\* the operation exactly N times and slept exactly N-1 times.
C1_SuccessOnLastAttempt ==
    (max_retries >= 1 /\ stage >= 1) =>
        /\ (AllIn(attempt_log, Failures) /\ Len(attempt_log) < max_retries)
              => (outcome = "pending" /\ InCall)
        /\ (outcome = "success" /\ Len(attempt_log) = max_retries)
              => /\ AllIn(SubSeq(attempt_log, 1, max_retries - 1), Failures)
                 /\ ret = <<TRUE, Translate(stage, StageInput)>>
                 /\ calls = max_retries
                 /\ sleeps = max_retries - 1

C1_Witness ==
    /\ max_retries = MaxRetriesBound
    /\ outcome = "success"
    /\ Len(attempt_log) = max_retries
    /\ attempt_log[1] = "timeout"
    /\ calls = max_retries
    /\ pc = "returned"

\* C2: with max_retries = N >= 1, a call whose attempts all timed out is still
\* retrying while fewer than N attempts were made, and after the N-th it has
\* ended in AgentTimeoutError with exactly N invocations.
C2_AllTimeoutsExhaust ==
    (max_retries >= 1 /\ attempt_log # <<>> /\ AllIn(attempt_log, {"timeout"})) =>
        IF Len(attempt_log) < max_retries
          THEN outcome = "pending" /\ InCall
          ELSE /\ Len(attempt_log) = max_retries
               /\ calls = max_retries
               /\ outcome = "AgentTimeoutError"

C2_Witness ==
    /\ max_retries = MaxRetriesBound
    /\ AllIn(attempt_log, {"timeout"})
    /\ Len(attempt_log) = max_retries
    /\ outcome = "AgentTimeoutError"
    /\ exc = "AgentTimeoutError"

C4_TimeoutNotHeldByOperation ==
    ~(pc = "shutdown" /\ op = "running")

\* C5: if a stage of an item exhausted its retries, no later stage of that
\* item was invoked, the texts of that stage and the later ones were never
\* produced (those of the earlier stages were), and no result of that item
\* was appended.
C5_NoLaterStageAfterExhaustion ==
    \A e \in exhausted :
        /\ \A s \in 1..NumStages : s > e[2] => <<e[1], s>> \notin invoked
        /\ \A s \in 1..e[2] : <<e[1], s>> \in invoked
        /\ Len(results) < e[1]
        /\ russian_text = IF e[2] > 1 THEN Translate(1, sentences[e[1]]) ELSE None
        /\ hebrew_text = IF e[2] > 2 THEN Translate(2, russian_text) ELSE None
        /\ final_text = None

C5_Witness ==
    /\ pc = "failed"
    /\ \E e \in exhausted : e[2] = 2
    /\ <<pos, 1>> \in invoked
    /\ russian_text # None

\* C6: if a stage of item k exhausted its retries, the run is aborting or
\* aborted with exactly the results of items 1..k-1, and no agent was
\* invoked for an item after k.
C6_AbortAtItemK ==
    \A e \in exhausted :
        /\ pc \in {"except_agent", "failed"}
        /\ Len(results) = e[1] - 1
        /\ \A i \in 1..Len(results) : results[i].original_sentence = sentences[i]
        /\ \A v \in invoked : v[1] <= e[1]

C6_Witness ==
    /\ pc = "failed"
    /\ Len(sentences) = 5
    /\ \E e \in exhausted : e[1] = 3
    /\ Len(results) = 2

\* C7 (as stated): whenever the run is aborted by a chain failure at item k,
\* k = 1 included, a partial file holds the k-1 results with
\* sentences_processed = k-1 and sentences_expected = the number of items of
\* the run.
C7_PartialFileForEveryK ==
    (pc = "failed" /\ exhausted # {}) =>
        \E i \in 1..Len(files) :
            /\ files[i].kind = "partial"
            /\ files[i].status = "PARTIAL"
            /\ files[i].sentences = results
            /\ files[i].processed = pos - 1
            /\ files[i].expected = Len(sentences)

\* C7 (amended): whenever run() propagates the agent error of a chain failure
\* at item k, then for k >= 2 the last file written is the one partial file,
\* tagged PARTIAL, holding the k-1 results with sentences_processed = k-1 and
\* sentences_expected = NUM_SENTENCES; for k = 1 no file was written.
C7_PartialFileWhenResults ==
    (pc = "failed" /\ exc \in AgentErrors) =>
        IF pos >= 2
          THEN /\ files # <<>>
               /\ Len(FilesOfKind("partial")) = 1
               /\ LET f == files[Len(files)] IN
                    /\ f.kind = "partial"
                    /\ f.status = "PARTIAL"
                    /\ f.sentences = results
                    /\ Len(f.sentences) = pos - 1
                    /\ f.processed = pos - 1
                    /\ f.name = pos - 1
                    /\ f.expected = NUM_SENTENCES
          ELSE files = <<>>

C7_Witness ==
    /\ pc = "failed"
    /\ exc \in AgentErrors
    /\ pos = 3
    /\ Len(sentences) < NUM_SENTENCES
    /\ files # <<>>
    /\ files[Len(files)].kind = "partial"

C9_IndexContiguous ==
    /\ IndexContiguous(results)
    /\ \A i \in 1..Len(files) : IndexContiguous(files[i].sentences)

C9_Witness ==
    /\ pc = "failed"
    /\ Len(results) > CHECKPOINT_EVERY
    /\ Len(files) = 2
    /\ files[1].kind = "intermediate"
    /\ files[2].kind = "partial"

\* C10: whenever a failure has left run() early, after at least one item
\* completed and before all were processed, some file holds the results
\* accumulated so far.  (The run in which the save of the partial file was
\* tried and itself raised is left aside: there the code did try to persist.)
C10_ResultsPersistedOnFailure ==
    (/\ pc = "failed"
     /\ results # <<>>
     /\ Len(results) < Len(sentences)
     /\ ~(exhausted # {} /\ exc = "OSError")) =>
        \E i \in 1..Len(files) : files[i].sentences = results

\* C11: when KeyboardInterrupt has left run() with some items completed,
\* exactly one partial file has been written and it holds those items.
C11_InterruptSavesPartial ==
    (pc = "failed" /\ exc = "KeyboardInterrupt" /\ results # <<>>) =>
        /\ Len(FilesOfKind("partial")) = 1
        /\ FilesOfKind("partial")[1].sentences = results

\* C12: once a second run() has started on the instance, no step appends to
\* the results.
C12_NoSecondProcessing ==
    [][runs >= 2 => results' = results]_vars

C14_ConfirmedBeforeRun ==
    LET confirmed == /\ prerequisites = TRUE
                     /\ response \in {r \in Responses :
                                        StripLower(r) = "yes" \/ StripLower(r) = "y"}
    IN  /\ (\/ cli \in {"construct", "run"}
            \/ runs >= 1
            \/ pc # "idle"
            \/ invoked # {}
            \/ files # <<>>
            \/ truncated # {}) => confirmed
        /\ (cli = "exited" /\ ~confirmed) =>
              /\ runs = 0
              /\ invoked = {}
              /\ files = <<>>
              /\ exit_status = IF prerequisites = TRUE THEN 0 ELSE 1

C14_Witness ==
    /\ cli = "exited"
    /\ prerequisites = TRUE
    /\ response = "yes please"
    /\ invoked = {}
    /\ files = <<>>

\* C15: after a successful attempt the call has returned (True, value) with
\* that attempt's value; the successful attempt is the last invocation, every
\* earlier attempt failed, and no delay follows it; a first-attempt success
\* is a single invocation.
C15_SuccessReturnsAtOnce ==
    outcome = "success" =>
        /\ ~InCall
        /\ op = "none"
        /\ ret = <<TRUE, Translate(stage, StageInput)>>
        /\ attempt_log[Len(attempt_log)] = "ok"
        /\ AllIn(SubSeq(attempt_log, 1, Len(attempt_log) - 1), Failures)
        /\ calls = Len(attempt_log)
        /\ calls = attempt
        /\ sleeps = calls - 1
        /\ (attempt_log = <<"ok">> => calls = 1)

C15_Witness ==
    /\ outcome = "success"
    /\ pc = "returned"
    /\ calls = 1
    /\ max_retries = MaxRetriesBound

C17_SleepOnlyBetweenAttempts ==
    /\ calls = 0 => sleeps = 0
    /\ pc = "sleep" =>
         /\ attempt_log[Len(attempt_log)] \in Failures
         /\ attempt < max_retries
         /\ sleeps = calls - 1
    /\ (pc \in {"future", "shutdown"} \/ outcome = "success") =>
         sleeps = calls - 1
    /\ outcome \in AgentErrors =>
         (calls = max_retries /\ sleeps = max_retries - 1)

C17_Witness ==
    /\ outcome \in AgentErrors
    /\ max_retries = MaxRetriesBound
    /\ sleeps = MaxRetriesBound - 1

\* C18: every stage function is called with the output of the stage before
\* it (stage 1 with the original sentence), every result holds the three
\* outputs of that chain, and its distance is taken between the original
\* sentence and the output of stage 3.
C18_Chained ==
    /\ \A c \in called_with :
         c[3] = CASE c[2] = 1 -> sentences[c[1]]
                  [] c[2] = 2 -> Translate(1, sentences[c[1]])
                  [] OTHER -> Translate(2, Translate(1, sentences[c[1]]))
    /\ \A i \in 1..Len(results) :
         LET r == results[i]
         IN  /\ r.original_sentence = sentences[i]
             /\ r.russian_translation = Translate(1, r.original_sentence)
             /\ r.hebrew_translation = Translate(2, r.russian_translation)
             /\ r.final_sentence = Translate(3, r.hebrew_translation)
             /\ r.cosine_distance = Distance(r.original_sentence, r.final_sentence)

C18_Witness ==
    /\ Len(results) >= 2
    /\ <<2, 3, Translate(2, Translate(1, sentences[2]))>> \in called_with

\* C19: a write of an intermediate file that raised does not end the run.
C19_CheckpointFailureNotFatal ==
    (write_failed = "intermediate" /\ exc = "OSError") => pc # "failed"

\* C20: no target path ever holds a document cut short.
C20_WritesAtomic ==
    truncated = {}


\* C21: as long as the run has not ended, run() can take a step by itself,
\* without the submitted operation having to end: no wait depends on a stage
\* function that may never return.
C21_NoWaitOnOperation ==
    pc \notin {"completed", "failed"} => ENABLED ProgramStep

\* C22: with a positive inter-item wait configured, one wait has been taken
\* for every item after the first before that item's first stage call.
C22_WaitBetweenItems ==
    (WAIT_TIME_BETWEEN_SENTENCES > 0 /\ pos >= 2 /\ <<pos, 1>> \in invoked) =>
        item_waits >= pos - 1

\* C23: the step that leaves an attempt whose deadline has expired logs the
\* attempt as a timeout and returns, binds and stores nothing; a logged
\* timeout stays a timeout for the rest of the call.
C23_LateResultDropped ==
    [][/\ pc = "shutdown" =>
            \/ pc' = "shutdown"
            \/ /\ attempt_log' = Append(attempt_log, "timeout")
               /\ outcome' # "success"
               /\ ret' = ret
               /\ text_vars' = text_vars
               /\ results' = results
       /\ \A i \in 1..Len(attempt_log) :
            attempt_log[i] = "timeout" =>
               \/ attempt_log' = <<>>
               \/ (Len(attempt_log') >= i /\ attempt_log'[i] = "timeout")]_vars

C23_Witness ==
    /\ attempt_log = <<"timeout", "ok">>
    /\ outcome = "success"
    /\ pc = "returned"
    /\ stage = 2

\* C24: an attempt that ends before its deadline expired (the step leaves
\* future.result without the timeout having fired) is not logged as a
\* timeout and does not raise AgentTimeoutError.
C24_TimeoutOnlyAfterDeadline ==
    [][(pc = "future" /\ pc' \notin {"future", "shutdown"}) =>
          /\ attempt_log'[Len(attempt_log')] # "timeout"
          /\ outcome' # "AgentTimeoutError"]_vars

\* C25: every failed attempt of the current call has one report, carrying
\* its kind, its attempt number and max_retries, the final attempt included;
\* when the delay starts the report of the attempt before it is out.
C25_FailureReported ==
    /\ Len(reports) =
         Cardinality({i \in 1..Len(attempt_log) : attempt_log[i] \in Failures})
    /\ \A i \in 1..Len(reports) :
         reports[i] = <<attempt_log[i], i, max_retries>>
    /\ pc = "sleep" => Len(reports) = attempt
    /\ outcome \in AgentErrors => Len(reports) = max_retries

C25_Witness ==
    /\ outcome \in AgentErrors
    /\ max_retries = MaxRetriesBound
    /\ reports[MaxRetriesBound] = <<"timeout", MaxRetriesBound, MaxRetriesBound>>
    /\ reports[1][1] = "error"

\* C26: when a stage function is invoked no later stage of the same item has
\* been invoked, and every call counts its attempts from 1: its invocations
\* and failures so far are those of this call alone.
C26_RetryScopePerStage ==
    /\ pc \in {"future", "shutdown"} =>
         /\ \A s \in 1..NumStages : s > stage => <<pos, s>> \notin invoked
         /\ calls = attempt
         /\ attempt <= max_retries
         /\ Len(attempt_log) = attempt - 1
    /\ (pc = "attempt" /\ calls = 0) => attempt = 1

C26_Witness ==
    /\ pc = "future"
    /\ pos = 2
    /\ stage = NumStages
    /\ attempt = 1
    /\ max_retries = MaxRetriesBound

\* C27: every step leaves the results as they are or appends one result; the
\* results are those of the first items of the input, in input order, and
\* the first stage of an item is invoked only after the results of all items
\* before it were appended.
C27_AppendOnlyInOrder ==
    [][/\ \/ results' = results
          \/ /\ Len(results') = Len(results) + 1
             /\ SubSeq(results', 1, Len(results)) = results
       /\ Len(results') <= Len(sentences')
       /\ \A i \in 1..Len(results') :
            /\ results'[i].index = i
            /\ results'[i].original_sentence = sentences'[i]
       /\ \A p \in 1..Len(sentences') :
            <<p, 1>> \in invoked' => Len(results') >= p - 1]_vars

C27_Witness ==
    /\ Len(results) = 2
    /\ pos = 3
    /\ stage = 1
    /\ pc = "future"

\* C28: every final file records an end time (and with it a duration).
C28_FinalFileRecordsTiming ==
    \A i \in 1..Len(files) :
        files[i].kind = "final" => files[i].end_time # None

\* C29: when the final save has raised after every item was processed, run()
\* has failed with that error, which is none of the agent errors, no partial
\* file exists, the run has no end time, and the process exits with a status
\* other than 0.
C29_FinalSaveFailureFatal ==
    write_failed = "final" =>
        /\ pc = "failed"
        /\ Len(results) = Len(sentences)
        /\ exc \notin AgentErrors
        /\ exc = "OSError"
        /\ FilesOfKind("partial") = <<>>
        /\ end_time = None
        /\ cli = "exited" => exit_status = 1

C29_Witness ==
    /\ write_failed = "final"
    /\ cli = "exited"
    /\ exit_status = 1
    /\ Len(results) = CHECKPOINT_EVERY

\* C30, as stated: every intermediate or partial file is named by its count,
\* which is the length of its sentences; the counts of successive writes
\* strictly increase.
C30_CountsStrictlyIncrease ==
    /\ \A i \in 1..Len(files) :
         files[i].kind \in {"intermediate", "partial"} =>
            /\ files[i].name = files[i].processed
            /\ files[i].processed = Len(files[i].sentences)
    /\ \A i, j \in 1..Len(files) :
         (/\ i < j
          /\ files[i].kind \in {"intermediate", "partial"}
          /\ files[j].kind \in {"intermediate", "partial"}) =>
            files[i].processed < files[j].processed

\* C30, amended: every intermediate or partial file is named by its count,
\* which is the length of its sentences; the counts of successive writes
\* never decrease and strictly increase from one intermediate file to the
\* next; no file name is written twice.
C30_CountsNeverDecrease ==
    /\ \A i \in 1..Len(files) :
         files[i].kind \in {"intermediate", "partial"} =>
            /\ files[i].name = files[i].processed
            /\ files[i].processed = Len(files[i].sentences)
    /\ \A i, j \in 1..Len(files) :
         (/\ i < j
          /\ files[i].kind \in {"intermediate", "partial"}
          /\ files[j].kind \in {"intermediate", "partial"}) =>
            /\ files[i].processed <= files[j].processed
            /\ files[i].kind = files[j].kind =>
                 files[i].processed < files[j].processed
            /\ <<files[i].kind, files[i].name>> # <<files[j].kind, files[j].name>>

C30_Witness ==
    /\ Len(files) = 2
    /\ files[1].kind = "intermediate" /\ files[1].processed = CHECKPOINT_EVERY
    /\ files[2].kind = "partial" /\ files[2].processed = CHECKPOINT_EVERY
    /\ files[1].name = files[2].name

\* C31: an argument given to the constructor is the value the wrapper uses,
\* 0 included; the configuration default is used for an argument left out.
C31_SuppliedValuesUsed ==
    /\ max_retries = IF arg_max_retries = Missing THEN MAX_RETRIES
                     ELSE arg_max_retries[1]
    /\ retry_delay = IF arg_retry_delay = Missing THEN RETRY_DELAY
                     ELSE arg_retry_delay[1]

\* C32: the operation of an attempt runs only while call_with_retry is
\* inside _call_with_timeout for that attempt: when the outcome of the attempt
\* is back in the retry loop (the next attempt, the delay, the return, the
\* raise) no operation is running, so the next invocation never overlaps
\* the one before.
C32_OneInFlight ==
    /\ pc \notin {"future", "shutdown"} => op = "none"
    /\ pc \in {"future", "shutdown"} => (op = "running" /\ calls = attempt)

C32_Witness ==
    /\ pc = "future"
    /\ op = "running"
    /\ attempt = 2
    /\ attempt_log = <<"timeout">>

\* C33: a run writes at most one partial and at most one final file and
\* never both; a partial file exists only on a run that failed with an agent
\* error before all items were processed, a final file only on a completed
\* run and it holds a result for every item.
C33_PartialOrFinal ==
    LET partial == FilesOfKind("partial")
        final == FilesOfKind("final")
    IN  /\ Len(partial) <= 1
        /\ Len(final) <= 1
        /\ ~(partial # <<>> /\ final # <<>>)
        /\ partial # <<>> =>
             /\ pc = "failed"
             /\ exc \in AgentErrors
             /\ Len(results) < Len(sentences)
        /\ final # <<>> =>
             /\ pc = "completed"
             /\ exhausted = {}
             /\ Len(final[1].sentences) = Len(sentences)

C33_Witness ==
    /\ pc = "failed"
    /\ Len(FilesOfKind("partial")) = 1
    /\ FilesOfKind("final") = <<>>
    /\ Len(results) = 1

=============================================================================
